---- MODULE Spec2Model ----
(***************************************************************************)
(* Model of the safe calculator: calculator.py (evaluate, _eval, the       *)
(* registries, the interactive loop) and web_calculator.py (POST           *)
(* /api/eval).                                                             *)
(*                                                                         *)
(* An expression is a sequence of lexemes separated by blanks.  A float is *)
(* modelled exactly: a finite value is a dyadic rational n/d with |n| and  *)
(* d at most ExactMax (such values and the results below are exact in      *)
(* IEEE-754 double arithmetic), or +inf, -inf, NaN, or one of the three    *)
(* named constants.  An operation whose double result would have to be     *)
(* rounded, or leaves that range, yields the outcome "inexact": such       *)
(* inputs are outside the model and no behaviour starts from them.  The    *)
(* two zeros are two values, 0.0 and -0.0, equal in every comparison the    *)
(* program makes and told apart by str and by the sign rules of IEEE-754.  *)
(***************************************************************************)
EXTENDS Integers, Sequences, FiniteSets, TLC

VARIABLES expr, result, pc, request, response, last, line, subst, output, hist

vars == <<expr, result, pc, request, response, last, line, subst, output, hist>>

(***************************************************************************)
(* Bounds                                                                  *)
(***************************************************************************)
ExactMax == 30000
MaxLen == 4
MaxArgs == 3
MaxLines == 3

(***************************************************************************)
(* Floats                                                                  *)
(***************************************************************************)
Fin(n, d) == [c |-> "fin", n |-> n, d |-> d]
Zero == Fin(0, 1)
\* -0.0
NegZero == [c |-> "nzero", n |-> 0, d |-> 1]
One == Fin(1, 1)
FInt(n) == Fin(n, 1)
Inf == [c |-> "inf", n |-> 1, d |-> 0]
NInf == [c |-> "inf", n |-> -1, d |-> 0]
NaN == [c |-> "nan", n |-> 0, d |-> 0]
\* math.pi, math.e, math.tau (d = 1, 2, 3), n is the sign
Irr(s, i) == [c |-> "irr", n |-> s, d |-> i]
\* the complex number that float_pow returns for a negative base and a
\* fractional exponent
Complex == [c |-> "complex", n |-> 0, d |-> 0]

\* Outcome of a Python call: a returned float, a raised CalculatorError with
\* its message m (and the name a it quotes), another raised exception of
\* type m with text a, or a result the model does not represent.
Ok(v) == [k |-> "ok", v |-> v, m |-> "", a |-> ""]
Err(m, a) == [k |-> "err", v |-> Zero, m |-> m, a |-> a]
Exc(t, a) == [k |-> "exc", v |-> Zero, m |-> t, a |-> a]
Inexact == [k |-> "inexact", v |-> Zero, m |-> "", a |-> ""]

Abs(n) == IF n < 0 THEN -n ELSE n
Sgn(n) == IF n < 0 THEN -1 ELSE IF n = 0 THEN 0 ELSE 1

RECURSIVE GCD(_, _)
GCD(a, b) == IF b = 0 THEN a ELSE GCD(b, a % b)

RECURSIVE IsPow2(_)
IsPow2(d) == IF d = 1 THEN TRUE ELSE IF d % 2 # 0 THEN FALSE ELSE IsPow2(d \div 2)

\* The double n/d (d > 0), when it is exact and in range.
Rat(n, d) ==
  LET g == GCD(Abs(n), d)
      nn == n \div g
      dd == d \div g
  IN IF IsPow2(dd) /\ Abs(nn) <= ExactMax /\ dd <= ExactMax
     THEN Ok(Fin(nn, dd)) ELSE Inexact

IsNaN(x) == x.c = "nan"
IsInf(x) == x.c = "inf"
IsFin(x) == x.c \in {"fin", "nzero"}
IsIrr(x) == x.c = "irr"
IsZero(x) == IsFin(x) /\ x.n = 0
\* sign of a non-NaN float in a comparison with zero: -1, 0, 1
Sign(x) == IF IsFin(x) THEN Sgn(x.n) ELSE x.n
\* the sign bit of a non-NaN float
SignBit(x) == x.c = "nzero" \/ x.n < 0
IsInteger(x) == IsFin(x) /\ x.d = 1
IsOddInteger(x) == IsFin(x) /\ x.d = 1 /\ x.n % 2 = 1
InfOf(s) == IF s < 0 THEN NInf ELSE Inf
ZeroOf(negative) == IF negative THEN NegZero ELSE Zero

\* floor of the finite double n/d and of the named constants
Floor(x) ==
  IF IsFin(x) THEN x.n \div x.d
  ELSE LET f == CASE x.d = 1 -> 3 [] x.d = 2 -> 2 [] OTHER -> 6
       IN IF x.n > 0 THEN f ELSE -(f + 1)

\* operator.neg / operator.pos on a float
Neg(x) ==
  CASE x.c = "fin" -> IF x.n = 0 THEN NegZero ELSE Fin(-x.n, x.d)
    [] x.c = "nzero" -> Zero
    [] x.c = "inf" -> InfOf(-x.n)
    [] x.c = "irr" -> Irr(-x.n, x.d)
    [] OTHER -> NaN

Pos(x) == x

\* operator.add
Add(x, y) ==
  IF IsNaN(x) \/ IsNaN(y) THEN Ok(NaN)
  ELSE IF IsInf(x) /\ IsInf(y) THEN (IF x.n = y.n THEN Ok(x) ELSE Ok(NaN))
  ELSE IF IsInf(x) THEN Ok(x)
  ELSE IF IsInf(y) THEN Ok(y)
  ELSE IF IsIrr(x) \/ IsIrr(y)
       THEN (IF IsZero(x) THEN Ok(y) ELSE IF IsZero(y) THEN Ok(x) ELSE Inexact)
  ELSE IF IsZero(x) /\ IsZero(y) THEN Ok(ZeroOf(SignBit(x) /\ SignBit(y)))
  ELSE Rat(x.n * y.d + y.n * x.d, x.d * y.d)

\* operator.sub
Sub(x, y) == Add(x, Neg(y))

\* operator.mul
Mul(x, y) ==
  IF IsNaN(x) \/ IsNaN(y) THEN Ok(NaN)
  ELSE IF IsInf(x) \/ IsInf(y)
       THEN (IF IsZero(x) \/ IsZero(y) THEN Ok(NaN) ELSE Ok(InfOf(Sign(x) * Sign(y))))
  ELSE IF IsIrr(x) \/ IsIrr(y)
       THEN (IF IsZero(x) \/ IsZero(y) THEN Ok(ZeroOf(SignBit(x) # SignBit(y)))
             ELSE IF x = One THEN Ok(y) ELSE IF y = One THEN Ok(x) ELSE Inexact)
  ELSE IF IsZero(x) \/ IsZero(y) THEN Ok(ZeroOf(SignBit(x) # SignBit(y)))
  ELSE Rat(x.n * y.n, x.d * y.d)

\* (mutant) IEEE division, which yields an infinity or NaN for a zero divisor
TrueDivIEEE(x, y) ==
  IF IsNaN(x) \/ IsNaN(y) THEN Ok(NaN)
  ELSE IF IsZero(y)
       THEN (IF IsZero(x) THEN Ok(NaN)
             ELSE Ok(IF SignBit(x) # SignBit(y) THEN NInf ELSE Inf))
  ELSE IF IsInf(x) THEN (IF IsInf(y) THEN Ok(NaN) ELSE Ok(InfOf(Sign(x) * Sign(y))))
  ELSE IF IsInf(y) \/ IsZero(x) THEN Ok(ZeroOf(SignBit(x) # SignBit(y)))
  ELSE IF IsIrr(x) \/ IsIrr(y) THEN Inexact
  ELSE Rat(x.n * y.d * Sgn(y.n), x.d * Abs(y.n))

\* operator.truediv: float_div raises ZeroDivisionError when the divisor is
\* zero, whatever the dividend
TrueDiv(x, y) ==
  IF IsZero(y) THEN Exc("ZeroDivisionError", "float division by zero")
  ELSE IF IsNaN(x) \/ IsNaN(y) THEN Ok(NaN)
  ELSE IF IsInf(x) THEN (IF IsInf(y) THEN Ok(NaN) ELSE Ok(InfOf(Sign(x) * Sign(y))))
  ELSE IF IsInf(y) \/ IsZero(x) THEN Ok(ZeroOf(SignBit(x) # SignBit(y)))
  ELSE IF IsIrr(x) \/ IsIrr(y)
       THEN (IF y = One THEN Ok(x)
             ELSE IF IsIrr(x) /\ IsIrr(y) /\ x.d = y.d THEN Ok(FInt(x.n * y.n))
             ELSE Inexact)
  ELSE Rat(x.n * y.d * Sgn(y.n), x.d * Abs(y.n))

\* operator.mod: float_rem raises ZeroDivisionError when the divisor is zero;
\* otherwise fmod, moved to the sign of the divisor; a zero remainder takes
\* the sign of the divisor
Mod(x, y) ==
  IF IsZero(y) THEN Exc("ZeroDivisionError", "float modulo")
  ELSE IF IsNaN(x) \/ IsNaN(y) \/ IsInf(x) THEN Ok(NaN)
  ELSE IF IsZero(x) THEN Ok(ZeroOf(SignBit(y)))
  ELSE IF IsInf(y) THEN (IF Sign(x) = Sign(y) THEN Ok(x) ELSE Ok(y))
  ELSE IF IsIrr(x) \/ IsIrr(y) THEN Inexact
  ELSE LET num == x.n * y.d
           den == x.d * y.n
           q == IF den > 0 THEN num \div den ELSE (-num) \div (-den)
           r == x.n * y.d - q * y.n * x.d
       IN IF r = 0 THEN Ok(ZeroOf(SignBit(y))) ELSE Rat(r, x.d * y.d)

\* acc * b^k for a positive finite b # 1 and an integer k >= 0, by repeated
\* multiplication; it stops as soon as the product leaves the exact range
RECURSIVE PowAcc(_, _, _)
PowAcc(acc, b, k) ==
  IF k = 0 THEN Ok(acc)
  ELSE LET p == Mul(acc, b)
       IN IF p.k # "ok" THEN Inexact ELSE PowAcc(p.v, b, k - 1)

\* operator.pow on two floats: float_pow
Pow(x, y) ==
  IF IsZero(y) THEN Ok(One)
  ELSE IF IsNaN(x) THEN Ok(NaN)
  ELSE IF IsNaN(y) THEN (IF x = One THEN Ok(One) ELSE Ok(NaN))
  ELSE IF IsInf(y)
       THEN (IF x = One \/ x = FInt(-1) THEN Ok(One)
             ELSE LET big == IsInf(x) \/ IsIrr(x) \/ Abs(x.n) > x.d
                  IN IF (y.n > 0) = big THEN Ok(Inf) ELSE Ok(Zero))
  ELSE IF IsInf(x)
       THEN (IF Sign(y) > 0
             THEN (IF IsOddInteger(y) THEN Ok(x) ELSE Ok(Inf))
             ELSE Ok(ZeroOf(IsOddInteger(y) /\ SignBit(x))))
  ELSE IF IsZero(x)
       THEN (IF Sign(y) < 0
             THEN Exc("ZeroDivisionError", "0.0 cannot be raised to a negative power")
             ELSE Ok(ZeroOf(IsOddInteger(y) /\ SignBit(x))))
  ELSE IF Sign(x) < 0 /\ ~IsInteger(y)
       THEN Ok(Complex)
  ELSE IF x = One THEN Ok(One)
  ELSE IF x = FInt(-1) THEN (IF IsOddInteger(y) THEN Ok(FInt(-1)) ELSE Ok(One))
  ELSE IF IsIrr(x) \/ IsIrr(y) \/ ~IsInteger(y)
       THEN (IF y = One THEN Ok(x) ELSE Inexact)
  ELSE LET ax == Fin(Abs(x.n), x.d)
           base == IF y.n > 0 THEN ax ELSE Fin(ax.d, ax.n)
           k == Abs(y.n)
           neg == x.n < 0 /\ k % 2 = 1
           p == PowAcc(One, base, k)
       IN IF p.k = "ok" THEN (IF neg THEN Ok(Neg(p.v)) ELSE p)
          ELSE IF k >= 1024 /\ base.n >= 2 * base.d
               THEN Exc("OverflowError", "Numerical result out of range")
          ELSE IF k >= 1075 /\ 2 * base.n <= base.d THEN Ok(ZeroOf(neg))
          ELSE Inexact

(***************************************************************************)
(* Registries                                                              *)
(***************************************************************************)
\* _CONSTS
ConstNames == {"pi", "e", "tau"}

ConstValue(id) == CASE id = "pi" -> Irr(1, 1) [] id = "e" -> Irr(1, 2) [] OTHER -> Irr(1, 3)

\* _FUNCS
FuncNames == {"abs", "round", "sqrt", "sin", "cos", "tan", "asin", "acos",
              "atan", "log", "log10", "ln", "exp", "floor", "ceil"}

ValueError(msg) == Exc("ValueError", msg)
DomainError == ValueError("math domain error")
ArgTypeError == Exc("TypeError", "arguments")

\* int(x) for math.floor, math.ceil and round
ToInt(x, n) ==
  IF IsInf(x) THEN Exc("OverflowError", "cannot convert float infinity to integer")
  ELSE IF IsNaN(x) THEN ValueError("cannot convert float NaN to integer")
  ELSE Ok(FInt(n))

\* round half to even of a finite float
RoundEven(x) ==
  IF x.c = "irr" THEN x.n * (IF x.d = 3 THEN 6 ELSE 3)
  ELSE LET f == Floor(x)
           twice == 2 * (x.n - f * x.d)
       IN IF twice < x.d THEN f
          ELSE IF twice > x.d THEN f + 1
          ELSE IF f % 2 = 0 THEN f ELSE f + 1

RECURSIVE ISqrt(_, _)
ISqrt(n, r) == IF r * r >= n THEN r ELSE ISqrt(n, r + 1)

MathSqrt(x) ==
  IF IsNaN(x) THEN Ok(NaN)
  ELSE IF Sign(x) < 0 THEN DomainError
  ELSE IF IsInf(x) \/ IsZero(x) THEN Ok(x)
  ELSE IF IsIrr(x) THEN Inexact
  ELSE LET rn == ISqrt(x.n, 0)
           rd == ISqrt(x.d, 1)
       IN IF rn * rn = x.n /\ rd * rd = x.d THEN Ok(Fin(rn, rd)) ELSE Inexact

\* sin, cos, tan: atZero is the image of 0.0; sin and tan keep the sign of a
\* zero
MathTrig(x, atZero) ==
  IF IsNaN(x) THEN Ok(NaN)
  ELSE IF IsInf(x) THEN DomainError
  ELSE IF IsZero(x) THEN Ok(IF IsZero(atZero) THEN x ELSE atZero)
  ELSE Inexact

\* asin, acos: exactAt is the argument whose image is 0; asin keeps the sign
\* of a zero
MathArc(x, exactAt) ==
  IF IsNaN(x) THEN Ok(NaN)
  ELSE IF IsInf(x) \/ IsIrr(x) \/ Abs(x.n) > x.d THEN DomainError
  ELSE IF IsZero(x) /\ IsZero(exactAt) THEN Ok(x)
  ELSE IF x = exactAt THEN Ok(Zero)
  ELSE Inexact

MathAtan(x) ==
  IF IsNaN(x) THEN Ok(NaN) ELSE IF IsZero(x) THEN Ok(x) ELSE Inexact

\* the natural logarithm of one argument, as math.log and math.log10 take it
LogOf(x, exact) ==
  IF IsNaN(x) THEN Ok(NaN)
  ELSE IF Sign(x) <= 0 THEN DomainError
  ELSE IF IsInf(x) THEN Ok(Inf)
  ELSE IF x = One THEN Ok(Zero)
  ELSE exact

\* a positive float below 1, whose logarithm is negative
BelowOne(x) == IsFin(x) /\ x.n < x.d

\* math.log(x, base): log(x) / log(base), each logarithm checked in turn,
\* the quotient a float division.  A logarithm the model does not represent
\* still has its sign, which the quotient of it and a zero or an infinity
\* takes.
MathLog2(x, base) ==
  LET num == LogOf(x, Inexact)
      den == LogOf(base, Inexact)
  IN IF num.k = "exc" THEN num
     ELSE IF den.k = "exc" THEN den
     ELSE IF den.k = "ok" /\ IsZero(den.v) THEN Exc("ZeroDivisionError", "float division by zero")
     ELSE IF num.k = "ok" /\ den.k = "ok" THEN TrueDiv(num.v, den.v)
     ELSE IF num.k = "ok" /\ IsNaN(num.v) THEN Ok(NaN)
     ELSE IF den.k = "ok" /\ IsNaN(den.v) THEN Ok(NaN)
     ELSE IF num.k = "ok" /\ IsZero(num.v) THEN Ok(ZeroOf(BelowOne(base)))
     ELSE IF num.k = "ok" /\ IsInf(num.v)
     THEN Ok(IF BelowOne(base) THEN NInf ELSE Inf)
     ELSE IF den.k = "ok" /\ IsInf(den.v) THEN Ok(ZeroOf(BelowOne(x)))
     ELSE IF x = base THEN Ok(One)
     ELSE Inexact

MathLog10(x) ==
  LogOf(x, CASE x = FInt(10) -> Ok(FInt(1)) [] x = FInt(100) -> Ok(FInt(2))
             [] x = FInt(1000) -> Ok(FInt(3)) [] x = FInt(10000) -> Ok(FInt(4))
             [] OTHER -> Inexact)

MathExp(x) ==
  IF IsNaN(x) THEN Ok(NaN)
  ELSE IF IsInf(x) THEN (IF x.n > 0 THEN Ok(Inf) ELSE Ok(Zero))
  ELSE IF IsZero(x) THEN Ok(One)
  ELSE IF IsFin(x) /\ x.n >= 710 * x.d THEN Exc("OverflowError", "math range error")
  ELSE IF IsFin(x) /\ x.n <= (-746) * x.d THEN Ok(Zero)
  ELSE Inexact

BuiltinAbs(x) ==
  CASE IsFin(x) -> Ok(Fin(Abs(x.n), x.d))
    [] x.c = "inf" -> Ok(Inf)
    [] x.c = "irr" -> Ok(Irr(1, x.d))
    [] OTHER -> Ok(NaN)

\* _FUNCS[name](*args): the implementation behind each name, with the
\* TypeError it raises for an argument count (or, for round, an ndigits
\* float) it does not take
CallFunc(name, args) ==
  LET n == Len(args)
      x == args[1]
  IN CASE name = "abs" -> IF n # 1 THEN ArgTypeError ELSE BuiltinAbs(x)
       [] name = "round" ->
            IF n # 1 THEN ArgTypeError
            ELSE ToInt(x, IF IsInf(x) \/ IsNaN(x) THEN 0 ELSE RoundEven(x))
       [] name = "sqrt" -> IF n # 1 THEN ArgTypeError ELSE MathSqrt(x)
       [] name = "sin" -> IF n # 1 THEN ArgTypeError ELSE MathTrig(x, Zero)
       [] name = "cos" -> IF n # 1 THEN ArgTypeError ELSE MathTrig(x, One)
       [] name = "tan" -> IF n # 1 THEN ArgTypeError ELSE MathTrig(x, Zero)
       [] name = "asin" -> IF n # 1 THEN ArgTypeError ELSE MathArc(x, Zero)
       [] name = "acos" -> IF n # 1 THEN ArgTypeError ELSE MathArc(x, One)
       [] name = "atan" -> IF n # 1 THEN ArgTypeError ELSE MathAtan(x)
       [] name \in {"log", "ln"} ->
            IF n = 1 THEN LogOf(x, Inexact)
            ELSE IF n = 2 THEN MathLog2(x, args[2])
            ELSE ArgTypeError
       [] name = "log10" -> IF n # 1 THEN ArgTypeError ELSE MathLog10(x)
       [] name = "exp" -> IF n # 1 THEN ArgTypeError ELSE MathExp(x)
       [] name = "floor" ->
            IF n # 1 THEN ArgTypeError
            ELSE ToInt(x, IF IsInf(x) \/ IsNaN(x) THEN 0 ELSE Floor(x))
       [] OTHER \* ceil
            -> IF n # 1 THEN ArgTypeError
               ELSE ToInt(x, IF IsInf(x) \/ IsNaN(x) THEN 0
                             ELSE IF IsFin(x) /\ x.d = 1 THEN x.n ELSE Floor(x) + 1)

(***************************************************************************)
(* Lexemes and the expression grammar of ast.parse(expr, mode="eval")      *)
(***************************************************************************)
\* A lexeme: a literal (s is its form, v its value), a name, or an operator
\* or delimiter.
Lit(form, v) == [k |-> "lit", s |-> form, v |-> v]
Num(v) == Lit("dec", v)
Name(id) == [k |-> "name", s |-> id, v |-> Zero]
Op(sym) == [k |-> "op", s |-> sym, v |-> Zero]
EndOfInput == [k |-> "eof", s |-> "", v |-> Zero]

\* forms of literal whose value is an int or a float
NumericForms == {"dec", "hex", "sep"}
\* names the Python grammar reads as constants
KeywordConstants == {"True", "False", "None"}

\* the characters of identifiers
Letters == {"a", "b", "c", "d", "e", "f", "g", "h", "i", "j", "k", "l", "m",
            "n", "o", "p", "q", "r", "s", "t", "u", "v", "w", "x", "y", "z",
            "A", "B", "C", "D", "E", "F", "G", "H", "I", "J", "K", "L", "M",
            "N", "O", "P", "Q", "R", "S", "T", "U", "V", "W", "X", "Y", "Z"}
Digits == {"0", "1", "2", "3", "4", "5", "6", "7", "8", "9"}
Char(str, i) == SubSeq(str, i, i)
IsIdentifier(str) ==
  /\ Len(str) > 0 /\ Char(str, 1) \in Letters \cup {"_"}
  /\ \A i \in 1..Len(str) : Char(str, i) \in Letters \cup Digits \cup {"_"}
HasUnderscore(str) == \E i \in 1..Len(str) : Char(str, i) = "_"

\* the words the Python grammar reserves, apart from the keyword constants
Keywords == {"and", "as", "assert", "async", "await", "break", "class",
             "continue", "def", "del", "elif", "else", "except", "finally",
             "for", "from", "global", "if", "import", "in", "is", "lambda",
             "nonlocal", "not", "or", "pass", "raise", "return", "try",
             "while", "with", "yield"}
\* the operators and delimiters of the grammar below
Symbols == {"+", "-", "*", "/", "//", "%", "**", "~", "(", ")", ",", "="}
\* the forms of literal: decimal, hexadecimal, with underscores between the
\* digits, imaginary, string
LiteralForms == {"dec", "hex", "sep", "imag", "str"}

\* the lexemes the grammar below reads as Python reads them: literals, the
\* identifiers that are not reserved words, and its own operators
Represented(toks) ==
  \A i \in 1..Len(toks) :
    \/ toks[i].k = "lit" /\ toks[i].s \in LiteralForms
    \/ toks[i].k = "name" /\ IsIdentifier(toks[i].s) /\ toks[i].s \notin Keywords
    \/ toks[i].k = "op" /\ toks[i].s \in Symbols

Peek(toks, i) == IF i <= Len(toks) THEN toks[i] ELSE EndOfInput
IsOp(tok, syms) == tok.k = "op" /\ tok.s \in syms

\* ast nodes
Constant(isnum, v) == [t |-> "Constant", num |-> isnum, v |-> v]
NameNode(id) == [t |-> "Name", id |-> id]
BinOp(op, l, r) == [t |-> "BinOp", op |-> op, left |-> l, right |-> r]
UnaryOp(op, x) == [t |-> "UnaryOp", op |-> op, operand |-> x]
Call(f, args, kws) == [t |-> "Call", func |-> f, args |-> args, keywords |-> kws]
Tuple(elts) == [t |-> "Tuple", elts |-> elts]
Starred(x) == [t |-> "Starred", value |-> x]

BinOpOf(sym) ==
  CASE sym = "+" -> "Add" [] sym = "-" -> "Sub" [] sym = "*" -> "Mult"
    [] sym = "/" -> "Div" [] sym = "%" -> "Mod" [] sym = "**" -> "Pow"
    [] OTHER -> "FloorDiv"

UnaryOpOf(sym) ==
  CASE sym = "+" -> "UAdd" [] sym = "-" -> "USub" [] OTHER -> "Invert"

Parsed(node, pos) == [ok |-> TRUE, node |-> node, pos |-> pos]
SyntaxError == [ok |-> FALSE, node |-> <<>>, pos |-> 0]

RECURSIVE ParseSum(_, _), SumRest(_, _), ParseTerm(_, _), TermRest(_, _)
RECURSIVE ParseFactor(_, _), ParsePower(_, _), PowerRest(_, _, _)
RECURSIVE ParsePrimary(_, _), Trailers(_, _), ParseAtom(_, _), Group(_, _, _)
RECURSIVE ParseArgs(_, _, _, _, _), ArgsRest(_, _, _, _, _, _)
RECURSIVE ParseElts(_, _, _), EltsRest(_, _, _, _)

\* the parse results below are Parsed(node, pos) or SyntaxError; an operator
\* that takes a result fails where the result failed

\* left sym right, where l and r parsed the operands
Binary(sym, l, r) ==
  IF l.ok /\ r.ok THEN Parsed(BinOp(BinOpOf(sym), l.node, r.node), r.pos)
  ELSE SyntaxError

\* sym operand, where r parsed the operand
Unary(sym, r) ==
  IF r.ok THEN Parsed(UnaryOp(UnaryOpOf(sym), r.node), r.pos) ELSE SyntaxError

\* f(arguments), where f parsed the callee and c the arguments
Called(f, c) ==
  IF f.ok /\ c.ok THEN Parsed(Call(f.node, c.node.args, c.node.keywords), c.pos)
  ELSE SyntaxError

\* expression (the levels between it and sum have no lexeme in this model)
ParseExpression(toks, i) == ParseSum(toks, i)

\* sum: sum ('+' | '-') term | term
ParseSum(toks, i) == SumRest(toks, ParseTerm(toks, i))

SumRest(toks, l) ==
  IF ~l.ok THEN SyntaxError
  ELSE IF IsOp(Peek(toks, l.pos), {"+", "-"})
  THEN SumRest(toks, Binary(toks[l.pos].s, l, ParseTerm(toks, l.pos + 1)))
  ELSE l

\* term: term ('*' | '/' | '//' | '%') factor | factor
ParseTerm(toks, i) == TermRest(toks, ParseFactor(toks, i))

TermRest(toks, l) ==
  IF ~l.ok THEN SyntaxError
  ELSE IF IsOp(Peek(toks, l.pos), {"*", "/", "//", "%"})
  THEN TermRest(toks, Binary(toks[l.pos].s, l, ParseFactor(toks, l.pos + 1)))
  ELSE l

\* factor: ('+' | '-' | '~') factor | power
ParseFactor(toks, i) ==
  IF IsOp(Peek(toks, i), {"+", "-", "~"})
  THEN Unary(toks[i].s, ParseFactor(toks, i + 1))
  ELSE ParsePower(toks, i)

\* after the base l of a power: '**' and the exponent, a factor when signed
PowerRest(toks, l, signed) ==
  IF ~l.ok THEN SyntaxError
  ELSE IF IsOp(Peek(toks, l.pos), {"**"})
  THEN Binary("**", l, IF signed THEN ParseFactor(toks, l.pos + 1)
                       ELSE ParsePower(toks, l.pos + 1))
  ELSE l

\* (mutant) the exponent may not start with a unary sign
ParsePowerNoSign(toks, i) == PowerRest(toks, ParsePrimary(toks, i), FALSE)

\* power: primary '**' factor | primary
ParsePower(toks, i) == PowerRest(toks, ParsePrimary(toks, i), TRUE)

\* primary: primary '(' [arguments] ')' | atom
ParsePrimary(toks, i) == Trailers(toks, ParseAtom(toks, i))

Trailers(toks, f) ==
  IF ~f.ok THEN SyntaxError
  ELSE IF IsOp(Peek(toks, f.pos), {"("})
  THEN Trailers(toks, Called(f, ParseArgs(toks, f.pos + 1, <<>>, <<>>, 0)))
  ELSE f

\* arguments up to the closing parenthesis.  phase 0: positional arguments
\* may still come; 1: a keyword argument was seen; 2: a ** argument was seen
ParseArgs(toks, i, args, kws, phase) ==
  IF IsOp(Peek(toks, i), {")"})
  THEN Parsed([args |-> args, keywords |-> kws], i + 1)
  ELSE IF IsOp(Peek(toks, i), {"**"})
  THEN ArgsRest(toks, ParseExpression(toks, i + 1), "**", args, kws, 2)
  ELSE IF IsOp(Peek(toks, i), {"*"})
  THEN (IF phase = 2 THEN SyntaxError
        ELSE ArgsRest(toks, ParseExpression(toks, i + 1), "*", args, kws, phase))
  ELSE IF Peek(toks, i).k = "name" /\ IsOp(Peek(toks, i + 1), {"="})
  THEN (IF toks[i].s \in KeywordConstants THEN SyntaxError
        ELSE ArgsRest(toks, ParseExpression(toks, i + 2), toks[i].s, args, kws,
                      IF phase = 2 THEN 2 ELSE 1))
  ELSE IF phase # 0 THEN SyntaxError
  ELSE ArgsRest(toks, ParseExpression(toks, i), "", args, kws, 0)

\* after the argument r parsed (kind "": positional, "*": starred, else the
\* keyword): a comma and the arguments left, or the parenthesis
ArgsRest(toks, r, kind, args, kws, phase) ==
  LET a == IF kind = "" THEN Append(args, r.node)
           ELSE IF kind = "*" THEN Append(args, Starred(r.node)) ELSE args
      k == IF kind \in {"", "*"} THEN kws ELSE Append(kws, kind)
  IN IF ~r.ok THEN SyntaxError
     ELSE IF IsOp(Peek(toks, r.pos), {","})
     THEN ParseArgs(toks, r.pos + 1, a, k, phase)
     ELSE IF IsOp(Peek(toks, r.pos), {")"})
     THEN Parsed([args |-> a, keywords |-> k], r.pos + 1)
     ELSE SyntaxError

\* the elements of a tuple after its first one, up to the closing parenthesis
ParseElts(toks, i, elts) ==
  IF IsOp(Peek(toks, i), {")"}) THEN Parsed(Tuple(elts), i + 1)
  ELSE IF IsOp(Peek(toks, i), {"*"})
  THEN EltsRest(toks, ParseSum(toks, i + 1), TRUE, elts)
  ELSE EltsRest(toks, ParseSum(toks, i), FALSE, elts)

\* after the element r parsed: a comma and the elements left, or the
\* parenthesis
EltsRest(toks, r, star, elts) ==
  LET e == Append(elts, IF star THEN Starred(r.node) ELSE r.node)
  IN IF ~r.ok THEN SyntaxError
     ELSE IF IsOp(Peek(toks, r.pos), {","}) THEN ParseElts(toks, r.pos + 1, e)
     ELSE IF IsOp(Peek(toks, r.pos), {")"}) THEN Parsed(Tuple(e), r.pos + 1)
     ELSE SyntaxError

\* after '(' and what r parsed: the parenthesis of a group, or a tuple
Group(toks, r, star) ==
  IF ~r.ok THEN SyntaxError
  ELSE IF IsOp(Peek(toks, r.pos), {","})
  THEN ParseElts(toks, r.pos + 1, <<IF star THEN Starred(r.node) ELSE r.node>>)
  ELSE IF IsOp(Peek(toks, r.pos), {")"}) /\ ~star THEN Parsed(r.node, r.pos + 1)
  ELSE SyntaxError

\* STRING+: the position after the string literals that start at i
RECURSIVE Strings(_, _)
Strings(toks, i) ==
  IF Peek(toks, i).k = "lit" /\ Peek(toks, i).s = "str" THEN Strings(toks, i + 1)
  ELSE i

\* atom: NAME | 'True' | 'False' | 'None' | NUMBER | STRING+ | group | tuple
ParseAtom(toks, i) ==
  LET tok == Peek(toks, i)
  IN IF tok.k = "lit" /\ tok.s = "str"
     THEN Parsed(Constant(FALSE, tok.v), Strings(toks, i))
     ELSE IF tok.k = "lit"
     THEN Parsed(Constant(tok.s \in NumericForms, tok.v), i + 1)
     ELSE IF tok.k = "name"
     THEN (IF tok.s = "True" THEN Parsed(Constant(TRUE, One), i + 1)
           ELSE IF tok.s = "False" THEN Parsed(Constant(TRUE, Zero), i + 1)
           ELSE IF tok.s = "None" THEN Parsed(Constant(FALSE, Zero), i + 1)
           ELSE Parsed(NameNode(tok.s), i + 1))
     ELSE IF IsOp(tok, {"("})
     THEN (IF IsOp(Peek(toks, i + 1), {")"}) THEN Parsed(Tuple(<<>>), i + 2)
           ELSE IF IsOp(Peek(toks, i + 1), {"*"})
           THEN Group(toks, ParseSum(toks, i + 2), TRUE)
           ELSE Group(toks, ParseSum(toks, i + 1), FALSE))
     ELSE SyntaxError

\* the rest of a top-level tuple: expressions: expression (',' expression)* [',']
RECURSIVE ExpressionsRest(_, _, _)
ExpressionsRest(toks, r, elts) ==
  IF ~r.ok THEN SyntaxError
  ELSE IF ~IsOp(Peek(toks, r.pos), {","})
  THEN Parsed(Tuple(Append(elts, r.node)), r.pos)
  ELSE IF r.pos + 1 > Len(toks)
  THEN Parsed(Tuple(Append(elts, r.node)), r.pos + 1)
  ELSE ExpressionsRest(toks, ParseExpression(toks, r.pos + 1),
                       Append(elts, r.node))

\* expressions: a single expression, or a tuple without parentheses
Expressions(toks, r) ==
  IF r.ok /\ IsOp(Peek(toks, r.pos), {","}) THEN ExpressionsRest(toks, r, <<>>)
  ELSE r

\* the parse is one only if it used every lexeme
WholeInput(toks, r) == IF r.ok /\ r.pos = Len(toks) + 1 THEN r ELSE SyntaxError

\* the tokenizer's limit on open parentheses: one more is a SyntaxError
\* ("too many nested parentheses")
ParenLimit == 200

\* the parentheses open after lexeme i (an unmatched closing one, which
\* would make the count negative, is a SyntaxError of its own)
OpenParens(toks, i) ==
  Cardinality({j \in 1..i : IsOp(toks[j], {"("})})
    - Cardinality({j \in 1..i : IsOp(toks[j], {")"})})
TooNested(toks) ==
  Len(toks) > ParenLimit /\ \E i \in 1..Len(toks) : OpenParens(toks, i) > ParenLimit

\* Beyond this many lexemes the parser and _eval may exhaust the
\* interpreter's recursion limit or the parser's stack, with a RecursionError
\* or MemoryError that depends on the input and on the stack of the caller:
\* the model has no outcome for such an input.  Up to it they do not (a tree
\* level takes at least one lexeme and at most two frames of _eval).
SafeLen == 500
TooLong == [ok |-> FALSE, node |-> <<>>, pos |-> -1]

\* ast.parse(expr, mode="eval"): the body of the Expression, or SyntaxError
AstParse(toks) ==
  IF Len(toks) > SafeLen THEN TooLong
  ELSE IF TooNested(toks) THEN SyntaxError
  ELSE WholeInput(toks, Expressions(toks, ParseExpression(toks, 1)))

(***************************************************************************)
(* calculator.py                                                           *)
(***************************************************************************)
\* _BIN_OPS and _UNARY_OPS
BinOps == {"Add", "Sub", "Mult", "Div", "Mod", "Pow"}
UnaryOps == {"UAdd", "USub"}

ApplyBin(op, x, y) ==
  CASE op = "Add" -> Add(x, y) [] op = "Sub" -> Sub(x, y)
    [] op = "Mult" -> Mul(x, y) [] op = "Div" -> TrueDiv(x, y)
    [] op = "Mod" -> Mod(x, y) [] OTHER -> Pow(x, y)

ApplyUnary(op, x) == IF op = "USub" THEN Ok(Neg(x)) ELSE Ok(Pos(x))

\* float(value) on what an operator or function returned
ToFloat(o) ==
  IF o.k = "ok" /\ o.v.c = "complex"
  THEN Exc("TypeError", "float() argument must be a string or a real number")
  ELSE o

\* the except clauses around the operator application
BinOpResult(o) ==
  IF o.k = "exc" /\ o.m = "ZeroDivisionError" THEN Err("Division by zero", "") ELSE o

\* the except clauses around the function application
CallResult(name, o) ==
  IF o.k = "exc" /\ o.m = "ValueError" THEN Err(o.a, "")
  ELSE IF o.k = "exc" /\ o.m = "TypeError" THEN Err("Bad arguments for", name)
  ELSE o

\* the frames of _eval (and of the comprehension over a call's arguments)
\* that evaluating a tree can have on the stack at once
Larger(a, b) == IF a > b THEN a ELSE b
RECURSIVE Frames(_), FramesOfAll(_, _)
Frames(node) ==
  CASE node.t = "BinOp" -> 1 + Larger(Frames(node.left), Frames(node.right))
    [] node.t = "UnaryOp" -> 1 + Frames(node.operand)
    [] node.t = "Call" -> 2 + FramesOfAll(node.args, 1)
    [] OTHER -> 1
FramesOfAll(nodes, i) ==
  IF i > Len(nodes) THEN 0
  ELSE Larger(Frames(nodes[i]), FramesOfAll(nodes, i + 1))

\* Beyond this many frames _eval may exhaust the recursion limit, depending
\* on the stack of the caller: the model has no outcome for such a tree.
SafeDepth == 500

RECURSIVE Eval(_), EvalNode(_), EvalArgs(_, _, _)

\* [_as_number(_eval(arg)) for arg in node.args]: the values, or the outcome of
\* the first argument that does not return
EvalArgs(args, i, vals) ==
  IF i > Len(args) THEN [out |-> Ok(Zero), vals |-> vals]
  ELSE LET o == EvalNode(args[i])
       IN IF o.k # "ok" THEN [out |-> o, vals |-> vals]
          ELSE EvalArgs(args, i + 1, Append(vals, o.v))

\* (mutant) the arguments are evaluated before the name is looked up
EvalCallArgsFirst(node) ==
  IF node.func.t # "Name"
  THEN Err("Only simple function calls are allowed, e.g. sqrt(9)", "")
  ELSE LET a == EvalArgs(node.args, 1, <<>>)
       IN IF a.out.k # "ok" THEN a.out
          ELSE IF node.func.id \notin FuncNames
          THEN Err("Unknown function", node.func.id)
          ELSE IF Len(node.keywords) > 0
          THEN Err("Keyword arguments are not supported", "")
          ELSE CallResult(node.func.id, ToFloat(CallFunc(node.func.id, a.vals)))

\* the call branch of _eval
EvalCall(node) ==
  IF node.func.t # "Name"
  THEN Err("Only simple function calls are allowed, e.g. sqrt(9)", "")
  ELSE IF node.func.id \notin FuncNames
  THEN Err("Unknown function", node.func.id)
  ELSE IF Len(node.keywords) > 0
  THEN Err("Keyword arguments are not supported", "")
  ELSE LET a == EvalArgs(node.args, 1, <<>>)
       IN IF a.out.k # "ok" THEN a.out
          ELSE CallResult(node.func.id, ToFloat(CallFunc(node.func.id, a.vals)))

\* _eval called on a tree; the recursive calls are those of EvalNode, a
\* subtree needing no more frames than its tree
Eval(node) == IF Frames(node) > SafeDepth THEN Inexact ELSE EvalNode(node)

\* the branches of _eval
EvalNode(node) ==
  CASE node.t = "Constant" ->
         IF node.num THEN Ok(node.v) ELSE Err("Only numbers are allowed", "")
    [] node.t = "Name" ->
         IF node.id \in ConstNames THEN Ok(ConstValue(node.id))
         ELSE Err("Unknown name", node.id)
    [] node.t = "BinOp" ->
         IF node.op \notin BinOps THEN Err("Operator not allowed", node.op)
         ELSE LET l == EvalNode(node.left)
              IN IF l.k # "ok" THEN l
                 ELSE LET r == EvalNode(node.right)
                      IN IF r.k # "ok" THEN r
                         ELSE BinOpResult(ToFloat(ApplyBin(node.op, l.v, r.v)))
    [] node.t = "UnaryOp" ->
         IF node.op \notin UnaryOps THEN Err("Unary operator not allowed", node.op)
         ELSE LET x == EvalNode(node.operand)
              IN IF x.k # "ok" THEN x ELSE ToFloat(ApplyUnary(node.op, x.v))
    [] node.t = "Call" -> EvalCall(node)
    [] OTHER -> Err("Expression not supported", node.t)

\* evaluate; an expression with a lexeme outside the modelled ones has no
\* outcome in the model
evaluate(toks) ==
  LET tree == AstParse(toks)
  IN IF ~Represented(toks) \/ tree = TooLong THEN Inexact
     ELSE IF ~tree.ok THEN Err("Invalid expression", "")
     ELSE Eval(tree.node)

(***************************************************************************)
(* One call of evaluate                                                    *)
(***************************************************************************)
NoOutcome == [k |-> "none", v |-> Zero, m |-> "", a |-> ""]
NoFloat == [c |-> "none", n |-> 0, d |-> 0]
NoRequest == [path |-> "", length |-> "", ctype |-> "", body |-> "", nest |-> 0,
              digits |-> 0, expr |-> <<>>]
NoResponse == [status |-> 0, ok |-> FALSE, body |-> NoOutcome]

SeqsUpTo(S, n) == UNION {[1..m -> S] : m \in 0..n}

\* every expression of at most MaxLen lexemes over these lexemes
ShortAlphabet == {Num(Zero), Num(One), Name("True"), Name("pi"), Name("foo"),
                  Name("floor"), Op("("), Op(")"), Op("/"), Op("-"), Op(",")}
ShortExprs == SeqsUpTo(ShortAlphabet, MaxLen)

\* operator expressions: a op b, -a op b, a op -b, a op b op c
Literals == {Num(Zero), Num(One), Num(FInt(2)), Num(FInt(3)), Num(FInt(4)),
             Num(FInt(10)), Num(Fin(1, 2)), Num(Inf)}
OpSyms == {Op("+"), Op("-"), Op("*"), Op("/"), Op("%"), Op("**")}
Arith2 == {<<a, o, b>> : a \in Literals, o \in OpSyms, b \in Literals}
ArithNegL == {<<Op("-")>> \o e : e \in Arith2}
ArithNegR == {<<e[1], e[2], Op("-"), e[3]>> : e \in Arith2}
Arith3 == {e \o <<o, c>> : e \in Arith2, o \in OpSyms, c \in Literals}
ArithExprs == Arith2 \cup ArithNegL \cup ArithNegR \cup Arith3

\* calls: name ( arg , ... ) with at most MaxArgs arguments
CallNames == {Name(f) : f \in FuncNames \cup {"foo"}}
ArgExprs == {<<Num(Zero)>>, <<Num(One)>>, <<Num(FInt(2))>>, <<Num(FInt(8))>>,
             <<Op("-"), Num(One)>>, <<Num(Inf)>>,
             <<Num(One), Op("/"), Num(Zero)>>, <<Name("foo")>>}
RECURSIVE JoinArgs(_, _)
JoinArgs(as, i) ==
  IF i > Len(as) THEN <<>>
  ELSE (IF i > 1 THEN <<Op(",")>> ELSE <<>>) \o as[i] \o JoinArgs(as, i + 1)
CallExprs == {<<f, Op("(")>> \o JoinArgs(as, 1) \o <<Op(")")>> :
                f \in CallNames, as \in SeqsUpTo(ArgExprs, MaxArgs)}

\* the worked examples of the specification that the families above lack
ExampleExprs ==
  {<<Op("("), Num(One), Op("+"), Num(FInt(2)), Op(")"), Op("**"), Num(FInt(3))>>,
   <<Name("sqrt"), Op("("), Num(FInt(9)), Op(")")>>,
   <<Name("log10"), Op("("), Num(FInt(100)), Op(")")>>}

Exprs == ShortExprs \cup ArithExprs \cup CallExprs \cup ExampleExprs

\* the expressions whose evaluation the model represents exactly
Modelled(S) == {e \in S : evaluate(e).k # "inexact"}

NoOutput == [text |-> "(nothing printed)", v |-> NoFloat]

InitOther ==
  /\ request = NoRequest /\ response = NoResponse
  /\ last = NoFloat /\ line = <<>> /\ subst = <<>> /\ output = NoOutput
  /\ hist = <<>>

InitEval ==
  /\ expr \in Modelled(Exprs)
  /\ result = NoOutcome
  /\ pc = "ready"
  /\ InitOther

\* a caller calls evaluate(expr) and gets its float or its exception
Evaluate ==
  /\ pc = "ready"
  /\ result' = evaluate(expr)
  /\ pc' = "done"
  /\ UNCHANGED <<expr, request, response, last, line, subst, output, hist>>

NextEval == Evaluate

Spec == InitEval /\ [][NextEval]_vars

(***************************************************************************)
(* Properties of evaluate                                                  *)
(***************************************************************************)
Tree == AstParse(expr)

\* a node and every node below it, in evaluation order
RECURSIVE NodesOf(_), NodesOfAll(_, _)
NodesOf(node) ==
  <<node>> \o
  CASE node.t = "BinOp" -> NodesOf(node.left) \o NodesOf(node.right)
    [] node.t = "UnaryOp" -> NodesOf(node.operand)
    [] node.t = "Call" -> NodesOf(node.func) \o NodesOfAll(node.args, 1)
    [] node.t = "Tuple" -> NodesOfAll(node.elts, 1)
    [] node.t = "Starred" -> NodesOf(node.value)
    [] OTHER -> <<>>
NodesOfAll(nodes, i) ==
  IF i > Len(nodes) THEN <<>> ELSE NodesOf(nodes[i]) \o NodesOfAll(nodes, i + 1)

Nodes == IF Tree.ok THEN NodesOf(Tree.node) ELSE <<>>
NodeSet == LET ns == Nodes IN {ns[i] : i \in 1..Len(ns)}

Failed(o) == o.k \in {"err", "exc"}
DivisionByZero == Err("Division by zero", "")
BadArguments(name) == Err("Bad arguments for", name)

\* the grammar of the specification (sections 4.1 and 4.2): the position
\* after the longest phrase starting at i, or 0 when there is none
RECURSIVE GAdditive(_, _), GAddRest(_, _), GMultiplicative(_, _), GMulRest(_, _)
RECURSIVE GUnary(_, _), GPower(_, _), GPrimary(_, _), GArgs(_, _)
GAdditive(toks, i) ==
  LET p == GMultiplicative(toks, i) IN IF p = 0 THEN 0 ELSE GAddRest(toks, p)
GAddRest(toks, i) ==
  IF IsOp(Peek(toks, i), {"+", "-"})
  THEN LET p == GMultiplicative(toks, i + 1) IN IF p = 0 THEN 0 ELSE GAddRest(toks, p)
  ELSE i
GMultiplicative(toks, i) ==
  LET p == GUnary(toks, i) IN IF p = 0 THEN 0 ELSE GMulRest(toks, p)
GMulRest(toks, i) ==
  IF IsOp(Peek(toks, i), {"*", "/", "%"})
  THEN LET p == GUnary(toks, i + 1) IN IF p = 0 THEN 0 ELSE GMulRest(toks, p)
  ELSE i
GUnary(toks, i) ==
  IF IsOp(Peek(toks, i), {"+", "-"}) THEN GUnary(toks, i + 1) ELSE GPower(toks, i)
GPower(toks, i) ==
  LET p == GPrimary(toks, i)
  IN IF p = 0 THEN 0
     ELSE IF IsOp(Peek(toks, p), {"**"}) THEN GUnary(toks, p + 1) ELSE p
GPrimary(toks, i) ==
  LET tok == Peek(toks, i)
  IN IF tok.k = "lit" THEN (IF tok.s = "dec" THEN i + 1 ELSE 0)
     ELSE IF tok.k = "name"
     THEN (IF tok.s \in FuncNames /\ IsOp(Peek(toks, i + 1), {"("})
           THEN (IF IsOp(Peek(toks, i + 2), {")"}) THEN i + 3 ELSE GArgs(toks, i + 2))
           ELSE IF tok.s \in ConstNames THEN i + 1 ELSE 0)
     ELSE IF IsOp(tok, {"("})
     THEN LET p == GAdditive(toks, i + 1)
          IN IF p # 0 /\ IsOp(Peek(toks, p), {")"}) THEN p + 1 ELSE 0
     ELSE 0
GArgs(toks, i) ==
  LET p == GAdditive(toks, i)
  IN IF p = 0 THEN 0
     ELSE IF IsOp(Peek(toks, p), {","}) THEN GArgs(toks, p + 1)
     ELSE IF IsOp(Peek(toks, p), {")"}) THEN p + 1
     ELSE 0

InGrammar(toks) == GAdditive(toks, 1) = Len(toks) + 1

\* C1: evaluate returns a float or raises CalculatorError; no other exception
\* escapes it.
OnlyCalculatorErrors == pc = "done" => result.k \in {"ok", "err"}

\* C2: an expression that the fixed grammar does not derive is never given a
\* value.
GrammarEnforced == (pc = "done" /\ ~InGrammar(expr)) => result.k # "ok"

\* the operator application of the evaluator on two operand outcomes, left
\* first
Apply2(sym, l, r) ==
  IF l.k # "ok" THEN l
  ELSE IF r.k # "ok" THEN r
  ELSE BinOpResult(ToFloat(ApplyBin(BinOpOf(sym), l.v, r.v)))
NegOf(x) == IF x.k # "ok" THEN x ELSE Ok(Neg(x.v))

\* precedence levels of the specification's table
Level(sym) == CASE sym \in {"+", "-"} -> 1 [] sym \in {"*", "/", "%"} -> 2 [] OTHER -> 4

\* the value the precedence table gives to a op b op c, -a op b and a op -b
TableValue(e) ==
  IF e \in Arith3
  THEN LET a == Ok(e[1].v)
           b == Ok(e[3].v)
           c == Ok(e[5].v)
           o1 == e[2].s
           o2 == e[4].s
       IN IF Level(o2) > Level(o1) \/ (o1 = "**" /\ o2 = "**")
          THEN Apply2(o1, a, Apply2(o2, b, c))
          ELSE Apply2(o2, Apply2(o1, a, b), c)
  ELSE IF e \in ArithNegL
  THEN (IF e[3].s = "**"
        THEN NegOf(Apply2("**", Ok(e[2].v), Ok(e[4].v)))
        ELSE Apply2(e[3].s, Ok(Neg(e[2].v)), Ok(e[4].v)))
  ELSE IF e \in ArithNegR
  THEN Apply2(e[2].s, Ok(e[1].v), Ok(Neg(e[4].v)))
  ELSE Apply2(e[2].s, Ok(e[1].v), Ok(e[3].v))

Ex2Plus3Times4 == <<Num(FInt(2)), Op("+"), Num(FInt(3)), Op("*"), Num(FInt(4))>>
ExParenPow == <<Op("("), Num(One), Op("+"), Num(FInt(2)), Op(")"), Op("**"), Num(FInt(3))>>
ExNegPow == <<Op("-"), Num(FInt(2)), Op("**"), Num(FInt(2))>>
ExPowNeg == <<Num(FInt(2)), Op("**"), Op("-"), Num(FInt(2))>>
Ex10Mod3 == <<Num(FInt(10)), Op("%"), Num(FInt(3))>>

PrecedenceTable ==
  /\ expr \in ArithExprs => result = TableValue(expr)
  /\ expr = Ex2Plus3Times4 => result = Ok(FInt(14))
  /\ expr = ExParenPow => result = Ok(FInt(27))
  /\ expr = ExNegPow => result = Ok(FInt(-4))
  /\ expr = Ex10Mod3 => result = Ok(One)

\* C3 as stated: the precedence table, with "2**-2" = 0.5.
PrecedenceAsStated ==
  pc = "done" => (PrecedenceTable /\ (expr = ExPowNeg => result = Ok(Fin(1, 2))))

\* C3 (amended): the value of an operator expression is the one the
\* precedence table gives: + - and * / % associate to the left, ** to the
\* right and binds tighter than a sign on its left, its exponent may start
\* with a sign; "-2**2" = -4, "2**-2" = 0.25, "2+3*4" = 14, "(1+2)**3" = 27,
\* "10%3" = 1.
PrecedenceHolds ==
  pc = "done" => (PrecedenceTable /\ (expr = ExPowNeg => result = Ok(Fin(1, 4))))

PrecedenceWitness ==
  /\ pc = "done" /\ expr = ExPowNeg /\ result = Ok(Fin(1, 4))

\* a / or % node whose operands both evaluate, the right one to zero
DivByZeroSite(s) ==
  /\ s.t = "BinOp" /\ s.op \in {"Div", "Mod"}
  /\ Eval(s.left).k = "ok"
  /\ Eval(s.right).k = "ok" /\ IsZero(Eval(s.right).v)

\* C4: a / or % whose right operand evaluates to zero raises "Division by
\* zero" whatever the left operand is, and evaluate returns no value.
DivisionByZeroFlagged ==
  pc = "done" =>
    LET sites == {s \in NodeSet : DivByZeroSite(s)}
    IN /\ \A s \in sites : Eval(s) = DivisionByZero
       /\ sites # {} => result.k # "ok"
       /\ (Tree.ok /\ Tree.node \in sites) => result = DivisionByZero

DivisionByZeroWitness ==
  /\ pc = "done" /\ expr = <<Num(Zero), Op("/"), Num(Zero)>>
  /\ result = DivisionByZero

\* a top-level call of a whitelisted function, by position, whose arguments
\* all evaluate
PlainCall ==
  /\ Tree.ok /\ Tree.node.t = "Call" /\ Tree.node.func.t = "Name"
  /\ Tree.node.func.id \in FuncNames /\ Len(Tree.node.keywords) = 0
  /\ \A i \in 1..Len(Tree.node.args) : Eval(Tree.node.args[i]).k = "ok"
CallName == Tree.node.func.id
CallArgs == [i \in 1..Len(Tree.node.args) |-> Eval(Tree.node.args[i]).v]

\* the arity column of the registry table of the specification
TableArity(name) == IF name = "log" THEN {1, 2} ELSE {1}

\* C5: a call with an argument count outside the table's arity is
\* BadArguments, one inside it is not.
ArityEnforced ==
  (pc = "done" /\ PlainCall) =>
    (Len(CallArgs) \notin TableArity(CallName) <=> result = BadArguments(CallName))

NonPositive(x) == ~IsNaN(x) /\ Sign(x) <= 0
OutsideUnit(x) == IsInf(x) \/ IsIrr(x) \/ (IsFin(x) /\ Abs(x.n) > x.d)

\* the domain column of the registry table of the specification
DomainViolation(name, args) ==
  CASE name = "sqrt" -> ~IsNaN(args[1]) /\ Sign(args[1]) < 0
    [] name \in {"asin", "acos"} -> OutsideUnit(args[1])
    [] name = "log10" -> NonPositive(args[1])
    [] name \in {"log", "ln"} ->
         \/ NonPositive(args[1])
         \/ Len(args) = 2 /\ (NonPositive(args[2]) \/ args[2] = One)
    [] OTHER -> FALSE

\* C6: a call that violates the function's domain raises a CalculatorError.
DomainErrorsFlagged ==
  (/\ pc = "done" /\ PlainCall /\ Len(CallArgs) \in TableArity(CallName)
   /\ DomainViolation(CallName, CallArgs)) => result.k = "err"

\* C7: evaluate never returns NaN.
NeverNaN == (pc = "done" /\ result.k = "ok") => ~IsNaN(result.v)

FirstFailed(args) ==
  LET bad == {i \in 1..Len(args) : Eval(args[i]).k # "ok"}
  IN IF bad = {} THEN 0 ELSE CHOOSE i \in bad : \A j \in bad : i <= j

\* the operands of a whitelisted operator are evaluated left to right, before
\* the operator is applied
OperandOrder(s) ==
  (s.t = "BinOp" /\ s.op \in BinOps) =>
    LET l == Eval(s.left)
        r == Eval(s.right)
    IN /\ Failed(l) => Eval(s) = l
       /\ (l.k = "ok" /\ Failed(r)) => Eval(s) = r

\* C10 as stated: the arguments of a call are evaluated before its name is
\* looked up, so the error of an argument is reported first.
ArgumentsBeforeLookup ==
  pc = "done" =>
    \A s \in NodeSet :
      /\ OperandOrder(s)
      /\ (s.t = "Call" /\ s.func.t = "Name" /\ FirstFailed(s.args) # 0
          /\ Failed(Eval(s.args[FirstFailed(s.args)])))
           => Eval(s) = Eval(s.args[FirstFailed(s.args)])

\* the argument counts the implementations behind the names take
ImplArity(name) == IF name \in {"log", "ln"} THEN {1, 2} ELSE {1}

\* C10 (amended): evaluate reports the first error in this order: for an
\* operator the left operand, the right operand, the application; for a call
\* the name lookup, then each argument in order, then the argument count,
\* then the domain.
EvaluationOrder ==
  pc = "done" =>
    \A s \in NodeSet :
      /\ OperandOrder(s)
      /\ (s.t = "Call" /\ s.func.t = "Name") =>
           LET f == s.func.id
               bad == FirstFailed(s.args)
           IN /\ f \notin FuncNames => Eval(s) = Err("Unknown function", f)
              /\ (f \in FuncNames /\ Len(s.keywords) = 0 /\ bad # 0)
                   => Eval(s) = Eval(s.args[bad])
              /\ (f \in FuncNames /\ Len(s.keywords) = 0 /\ bad = 0
                  /\ Len(s.args) \notin ImplArity(f))
                   => Eval(s) = BadArguments(f)

EvaluationOrderWitness ==
  /\ pc = "done"
  /\ expr = <<Name("foo"), Op("("), Num(One), Op("/"), Num(Zero), Op(")")>>
  /\ result = Err("Unknown function", "foo")

(***************************************************************************)
(* web_calculator.py: POST                                                 *)
(***************************************************************************)
Paths == {"/api/eval", "/api/health"}
Json == "application/json"
Form == "application/x-www-form-urlencoded"

\* what the body of a request holds: bytes that are not UTF-8, text that is
\* not JSON, JSON that is not an object, an object or form without expr, an
\* expr that is not a string, or a string expr
BodyKinds(ctype) ==
  CASE ctype = Json -> {"notutf8", "malformed", "notdict", "noexpr", "nonstring", "string"}
    [] ctype = Form -> {"notutf8", "noexpr", "string"}
    [] OTHER -> {"noexpr", "string"}

HttpExprs ==
  Modelled(Arith2 \cup {<<>>, <<Name("foo")>>, <<Name("pi")>>,
                        <<Name("round"), Op("("), Num(Inf), Op(")")>>,
                        <<Name("sqrt"), Op("("), Num(FInt(9)), Op(")")>>})

\* json.loads: the decoder refuses arrays and objects nested deeper than the
\* interpreter's recursion limit (RecursionError) and integers of more digits
\* than the limit of int() (ValueError).  How much of the recursion limit is
\* left depends on the stack of the caller: beyond SafeNest and up to the
\* limit the model has no outcome.
RecursionLimit == 1000
SafeNest == 500
MaxStrDigits == 4300

\* A request: the path, whether int() reads the Content-Length header, the
\* content type, what the body holds, and for a JSON body the deepest nesting
\* and the longest integer that the decoder meets before the end of the text
\* or its first syntax error.
Requests ==
  {[path |-> p, length |-> l, ctype |-> c, body |-> b, nest |-> n,
    digits |-> d, expr |-> e] :
     p \in Paths, l \in {"int", "notint"}, c \in {Json, Form, "text/plain"},
     b \in {"notutf8", "malformed", "notdict", "noexpr", "nonstring", "string"},
     n \in {1, RecursionLimit + 1}, d \in {1, MaxStrDigits, MaxStrDigits + 1},
     e \in HttpExprs}

InitHttp ==
  /\ request \in {r \in Requests :
                    /\ r.body \in BodyKinds(r.ctype)
                    /\ (r.body # "string" => r.expr = <<>>)
                    /\ (r.ctype # Json \/ r.body = "notutf8"
                          => r.nest = 1 /\ r.digits = 1)}
  /\ response = NoResponse
  /\ pc = "ready"
  /\ expr = <<>> /\ result = NoOutcome
  /\ last = NoFloat /\ line = <<>> /\ subst = <<>> /\ output = NoOutput
  /\ hist = <<>>

Response(status, ok, body) == [status |-> status, ok |-> ok, body |-> body]

\* the response to an expression the model has no outcome for
NotRepresented == [status |-> 0, ok |-> FALSE, body |-> Inexact]

\* json.loads(raw.decode("utf-8")) of a JSON body: the exception it raises, or
\* "loaded"; "unrepresented" where the model has no outcome (the nesting is
\* within the recursion limit but not within SafeNest, or both limits are
\* passed and the one met first decides)
JsonLoads(req) ==
  IF req.body = "notutf8" THEN "UnicodeDecodeError"
  ELSE IF req.digits > MaxStrDigits /\ req.nest > SafeNest THEN "unrepresented"
  ELSE IF req.digits > MaxStrDigits THEN "ValueError"
  ELSE IF req.nest > RecursionLimit THEN "RecursionError"
  ELSE IF req.nest > SafeNest THEN "unrepresented"
  ELSE IF req.body = "malformed" THEN "JSONDecodeError"
  ELSE "loaded"

\* do_POST from the test of expr on, expr being None unless the body holds a
\* string expr
Answer(req) ==
  IF req.body # "string" THEN Response(400, FALSE, Err("Missing 'expr'", ""))
  ELSE LET o == evaluate(req.expr)
       IN IF o.k = "ok" THEN Response(200, TRUE, o)
          ELSE IF o.k = "err" THEN Response(200, FALSE, o)
          ELSE IF o.k = "exc" THEN Response(500, FALSE, Err("Server error", ""))
          ELSE NotRepresented

\* the response of Handler.do_POST, or NoResponse when the handler raises:
\* only json.JSONDecodeError is caught around the reading of the body
PostResponse(req) ==
  IF req.path # "/api/eval" THEN Response(404, FALSE, Err("Not found", ""))
  ELSE IF req.length = "notint" THEN NoResponse
  ELSE IF req.ctype = Json
  THEN LET loaded == JsonLoads(req)
       IN IF loaded = "JSONDecodeError"
          THEN Response(400, FALSE, Err("Bad JSON", ""))
          ELSE IF loaded = "unrepresented" THEN NotRepresented
          ELSE IF loaded # "loaded" THEN NoResponse
          ELSE Answer(req)
  ELSE IF req.ctype = Form
  THEN IF req.body = "notutf8" THEN NoResponse ELSE Answer(req)
  ELSE Response(400, FALSE, Err("Missing 'expr'", ""))

\* Handler.do_POST
DoPost ==
  /\ pc = "ready"
  /\ response' = PostResponse(request)
  /\ pc' = "done"
  /\ UNCHANGED <<expr, result, request, last, line, subst, output, hist>>

NextHttp == DoPost

SpecHttp == InitHttp /\ [][NextHttp]_vars

\* C8: a POST to /api/eval that supplies a string expr is answered with
\* status 200, ok telling whether the evaluation succeeded.
EvalAlways200 ==
  (/\ pc = "done" /\ request.path = "/api/eval"
   /\ request.ctype \in {Json, Form} /\ request.body = "string")
    => /\ response.status = 200
       /\ response.ok <=> evaluate(request.expr).k = "ok"

(***************************************************************************)
(* calculator.py: the interactive loop                                     *)
(***************************************************************************)
\* a stripped line of one word: an identifier, or a command that is no
\* Python lexeme
Command(w) == [k |-> "cmd", s |-> w, v |-> Zero]
Word(w) == <<IF IsIdentifier(w) THEN Name(w) ELSE Command(w)>>
QuitLines == {Word(":q"), Word("q"), Word("quit"), Word("exit")}
HelpLines == {Word(":h"), Word("help"), Word("?")}
ClearLines == {Word(":c"), Word("clear")}

\* the stripped lines a user types
ReplLines ==
  {<<>>, Word(":q"), Word(":h"), Word(":c"), Word("clear"),
   <<Num(One)>>, <<Num(FInt(2))>>, <<Num(Inf)>>, <<Name("foo")>>,
   <<Name("_"), Op("+"), Num(One)>>, <<Name("_"), Op("*"), Num(FInt(2))>>,
   <<Op("-"), Name("_")>>, <<Name("_"), Op("**"), Num(FInt(2))>>,
   <<Num(One), Op("/"), Num(Zero)>>, <<Num(One), Op("/"), Name("_")>>,
   <<Name("round"), Op("("), Name("_"), Op(")")>>}

\* str(x) of a float, as the lexemes the text consists of
Format(x) ==
  CASE x.c = "fin" -> IF x.n < 0 THEN <<Op("-"), Num(Fin(-x.n, x.d))>> ELSE <<Num(x)>>
    [] x.c = "nzero" -> <<Op("-"), Num(Zero)>>
    [] x.c = "irr" -> IF x.n < 0 THEN <<Op("-"), Num(Irr(1, x.d))>> ELSE <<Num(x)>>
    [] x.c = "inf" -> IF x.n < 0 THEN <<Op("-"), Name("inf")>> ELSE <<Name("inf")>>
    [] OTHER -> <<Name("nan")>>

\* str(state.last) if state.last is not None else "0"
LastText(l) == IF l = NoFloat THEN <<Num(Zero)>> ELSE Format(l)

\* a lexeme with an underscore inside it: an identifier other than _, or a
\* literal with underscores between its digits
InnerUnderscore(tok) ==
  \/ tok.k = "name" /\ tok # Name("_") /\ HasUnderscore(tok.s)
  \/ tok.k = "lit" /\ tok.s = "sep"

\* the text that replacing the underscores inside a lexeme leaves: the model
\* has no lexemes for it
Unrepresented == [k |-> "unrepresented", s |-> "", v |-> Zero]

\* line.replace("_", text): every underscore of the line is replaced, the
\* lexeme _ by the lexemes of the text
RECURSIVE Replace(_, _)
Replace(l, text) ==
  IF l = <<>> THEN <<>>
  ELSE (IF Head(l) = Name("_") THEN text
        ELSE IF InnerUnderscore(Head(l)) THEN <<Unrepresented>>
        ELSE <<Head(l)>>) \o Replace(Tail(l), text)

Event(ev, v) == [ev |-> ev, v |-> v]
Printed(text, v) == [text |-> text, v |-> v]

\* the last line of the banner repl prints before the first prompt
Banner == Printed("Commands: :q (quit), :h (help), :c (clear last)", NoFloat)

\* print(int(value)) if value.is_integer() else print(value)
PrintValue(x) ==
  IF IsInteger(x) THEN Printed("int", IF IsZero(x) THEN Zero ELSE x)
  ELSE Printed("float", x)

InitRepl ==
  /\ last = NoFloat
  /\ line = <<>> /\ subst = <<>> /\ output = Banner /\ hist = <<>>
  /\ pc = "prompt"
  /\ expr = <<>> /\ result = NoOutcome
  /\ request = NoRequest /\ response = NoResponse

Prompting == pc = "prompt" /\ Len(hist) < MaxLines

\* input raises EOFError or KeyboardInterrupt: print() and return
ReplEOF ==
  /\ Prompting
  /\ output' = Printed("", NoFloat)
  /\ pc' = "exited"
  /\ UNCHANGED <<expr, result, request, response, last, line, subst, hist>>

ReplBlank ==
  /\ Prompting
  /\ line' = <<>>
  /\ hist' = Append(hist, Event("blank", NoFloat))
  /\ UNCHANGED <<expr, result, request, response, last, subst, output, pc>>

ReplQuit(l) ==
  /\ Prompting /\ l \in QuitLines
  /\ line' = l
  /\ pc' = "exited"
  /\ UNCHANGED <<expr, result, request, response, last, subst, output, hist>>

ReplHelp(l) ==
  /\ Prompting /\ l \in HelpLines
  /\ line' = l
  /\ output' = Printed("Use '_' to refer to the previous result.", NoFloat)
  /\ hist' = Append(hist, Event("help", NoFloat))
  /\ UNCHANGED <<expr, result, request, response, last, subst, pc>>

ReplClear(l) ==
  /\ Prompting /\ l \in ClearLines
  /\ line' = l
  /\ last' = NoFloat
  /\ output' = Printed("Cleared.", NoFloat)
  /\ hist' = Append(hist, Event("clear", NoFloat))
  /\ UNCHANGED <<expr, result, request, response, subst, pc>>

\* (mutant) a failed evaluation forgets the last result
ReplEvaluateForgets(l) ==
  /\ Prompting /\ l # <<>> /\ l \notin QuitLines \cup HelpLines \cup ClearLines
  /\ LET text == LastText(last)
         e == Replace(l, text)
         o == evaluate(e)
     IN /\ o.k # "inexact"
        /\ line' = l /\ subst' = text /\ expr' = e /\ result' = o
        /\ IF o.k = "ok"
           THEN /\ last' = o.v
                /\ output' = PrintValue(o.v)
                /\ hist' = Append(hist, Event("ok", o.v))
                /\ pc' = pc
           ELSE IF o.k = "err"
           THEN /\ output' = Printed("Error", NoFloat)
                /\ hist' = Append(hist, Event("fail", NoFloat))
                /\ last' = NoFloat /\ pc' = pc
           ELSE /\ pc' = "crashed"
                /\ hist' = Append(hist, Event("crash", NoFloat))
                /\ UNCHANGED <<last, output>>
  /\ UNCHANGED <<request, response>>

\* any other line: substitute, evaluate, print.  An exception that is not a
\* CalculatorError leaves repl and ends the process.
ReplEvaluate(l) ==
  /\ Prompting /\ l # <<>> /\ l \notin QuitLines \cup HelpLines \cup ClearLines
  /\ LET text == LastText(last)
         e == Replace(l, text)
         o == evaluate(e)
     IN /\ o.k # "inexact"
        /\ line' = l /\ subst' = text /\ expr' = e /\ result' = o
        /\ IF o.k = "ok"
           THEN /\ last' = o.v
                /\ output' = PrintValue(o.v)
                /\ hist' = Append(hist, Event("ok", o.v))
                /\ pc' = pc
           ELSE IF o.k = "err"
           THEN /\ output' = Printed("Error", NoFloat)
                /\ hist' = Append(hist, Event("fail", NoFloat))
                /\ UNCHANGED <<last, pc>>
           ELSE /\ pc' = "crashed"
                /\ hist' = Append(hist, Event("crash", NoFloat))
                /\ UNCHANGED <<last, output>>
  /\ UNCHANGED <<request, response>>

NextRepl ==
  \/ ReplEOF
  \/ ReplBlank
  \/ \E l \in ReplLines : ReplQuit(l)
  \/ \E l \in ReplLines : ReplHelp(l)
  \/ \E l \in ReplLines : ReplClear(l)
  \/ \E l \in ReplLines : ReplEvaluate(l)

SpecRepl == InitRepl /\ [][NextRepl]_vars

\* the most recent successful result since the start or the last clear
RECURSIVE LastOf(_)
LastOf(h) ==
  IF h = <<>> THEN NoFloat
  ELSE LET e == h[Len(h)]
       IN IF e.ev = "ok" THEN e.v
          ELSE IF e.ev = "clear" THEN NoFloat
          ELSE LastOf(SubSeq(h, 1, Len(h) - 1))

Evaluated(h) == h # <<>> /\ h[Len(h)].ev \in {"ok", "fail", "crash"}

\* C9: the text substituted for _ is that of the most recent successful result
\* since the start or the last clear, or 0 if there is none: a success sets the
\* last result, a failure, a blank line and help keep it, clear resets it.
LastResultTracked ==
  /\ last = LastOf(hist)
  /\ Evaluated(hist) =>
       LET before == LastOf(SubSeq(hist, 1, Len(hist) - 1))
       IN subst = (IF before = NoFloat THEN <<Num(Zero)>> ELSE Format(before))

LastResultWitness ==
  /\ Len(hist) = 3
  /\ hist[1].ev = "ok" /\ hist[2].ev = "fail" /\ hist[3].ev = "ok"
  /\ line = <<Name("_"), Op("+"), Num(One)>>
  /\ subst = Format(hist[1].v)
  /\ last = hist[3].v

====
